---- MODULE Spec2Model ----
(***************************************************************************)
(* Model of backend/public/patch.py: a straight-line script that patches   *)
(* index.html (file A) and fremtidsplaner.html (file B) in place.          *)
(*                                                                         *)
(* Text is a sequence of tokens.  A token is a piece of text that is never *)
(* split by any matcher of the script: a single character (space, CR, LF), *)
(* one of the literals the script searches for or inserts, or a piece of   *)
(* other text.  The string a sequence stands for is the concatenation of   *)
(* its tokens.                                                             *)
(***************************************************************************)
EXTENDS Integers, Sequences, FiniteSets, TLC

\* ------------------------------------------------------------------ bounds
MaxChunksA == 3
MaxChunksB == 3
MaxRuns == 2

\* ------------------------------------------------------------------ tokens
SP == " "
LF == "\n"
CR == "\r"
X == "x"
FOOTER == "<footer>"
HTML_OPEN == "<html><body>"
HTML_CLOSE == "x</footer></body></html>"
\* new_section from '<div class="card" ...' to '</div>' (without indentation)
CARD == "<div class=\"card\" ...>...</div>"
STYLE_OPEN == "<style>"
STYLE_CLOSE == "</style>"
\* the two halves of a '<style>' tag that is split by other text
STY == "<sty"
LE == "le>"
\* new_style between its '<style>' and '</style>' tags
CSS == "@import ... .lang-grid { grid-template-columns: 1fr; } }"
BG_COMMENT == "<!-- Animated background -->"
BG_GRADIENT == "<div class=\"bg-gradient\"></div>"
BG_ORB_1 == "<div class=\"bg-orb bg-orb-1\"></div>"
BG_ORB_2 == "<div class=\"bg-orb bg-orb-2\"></div>"
BG_ORB_3 == "<div class=\"bg-orb bg-orb-3\"></div>"
PURPLE == "style=\"color:#a78bfa;text-decoration:none;border-bottom:1px solid rgba(167,139,250,0.3);transition:border-color 0.2s;\""
BLUE == "style=\"color:#3b82f6;text-decoration:none;border-bottom:1px solid rgba(59,130,246,0.3);transition:border-color 0.2s;\""
P_TAG == "<p style=\"margin-bottom:0;\">"
P_TAG_COLOR == "<p style=\"margin-bottom:0;color:var(--text-secondary);\">"

\* ------------------------------------------------------ the script's literals
\* the first argument of index_content.replace
footer_marker == <<SP, SP, SP, SP, FOOTER>>

\* variant: the replacement text does not end with the marker
new_section_NoMarker == <<SP, SP, SP, SP, CARD, LF, LF>>

new_section == <<SP, SP, SP, SP, CARD, LF, LF, SP, SP, SP, SP, FOOTER>>

\* variant: the replacement stylesheet is not indented
new_style_NoIndent == <<STYLE_OPEN, CSS, STYLE_CLOSE>>

new_style == <<SP, SP, STYLE_OPEN, CSS, STYLE_CLOSE>>

bg_elements_pattern == <<BG_COMMENT, BG_GRADIENT, BG_ORB_1, BG_ORB_2, BG_ORB_3>>

\* what \s matches among the tokens
Whitespace == {SP, LF, CR}

\* os.linesep of the platform the script is written for (/Users/...)
linesep == <<LF>>

\* the tokens of more than one byte
MultiByte ==
  { FOOTER, HTML_OPEN, HTML_CLOSE, CARD, STYLE_OPEN, STYLE_CLOSE, STY, LE, CSS,
    BG_COMMENT, BG_GRADIENT, BG_ORB_1, BG_ORB_2, BG_ORB_3,
    PURPLE, BLUE, P_TAG, P_TAG_COLOR }

\* What is on disk of token t when a write stops inside it: the bytes of t
\* from its first byte up to some byte before its last.  One value stands
\* for every such part of t, whichever byte the write stopped at.
CutOf(t) ==
  CASE t = FOOTER      -> "cut:<footer>"
    [] t = HTML_OPEN   -> "cut:<html><body>"
    [] t = HTML_CLOSE  -> "cut:x</footer></body></html>"
    [] t = CARD        -> "cut:<div class=\"card\" ...>...</div>"
    [] t = STYLE_OPEN  -> "cut:<style>"
    [] t = STYLE_CLOSE -> "cut:</style>"
    [] t = STY         -> "cut:<sty"
    [] t = LE          -> "cut:le>"
    [] t = CSS         -> "cut:@import ... .lang-grid { grid-template-columns: 1fr; } }"
    [] t = BG_COMMENT  -> "cut:<!-- Animated background -->"
    [] t = BG_GRADIENT -> "cut:<div class=\"bg-gradient\"></div>"
    [] t = BG_ORB_1    -> "cut:<div class=\"bg-orb bg-orb-1\"></div>"
    [] t = BG_ORB_2    -> "cut:<div class=\"bg-orb bg-orb-2\"></div>"
    [] t = BG_ORB_3    -> "cut:<div class=\"bg-orb bg-orb-3\"></div>"
    [] t = PURPLE      -> "cut:style=\"color:#a78bfa;...\""
    [] t = BLUE        -> "cut:style=\"color:#3b82f6;...\""
    [] t = P_TAG       -> "cut:<p style=\"margin-bottom:0;\">"
    [] t = P_TAG_COLOR -> "cut:<p style=\"margin-bottom:0;color:var(--text-secondary);\">"

\* the line that print writes, with its newline
DONE_LINE == "Done patching."

\* a part of that line, from its first byte up to some byte before its
\* newline: what standard output holds when it stops taking bytes in the line
CUT_LINE == "cut:Done patching."

\* ------------------------------------------------------------ text helpers
IsPrefix(p, s) == Len(p) <= Len(s) /\ SubSeq(s, 1, Len(p)) = p

Drop(s, n) == SubSeq(s, n + 1, Len(s))

\* the least index i >= from with s[i] = t, or 0
FirstIndex(s, t, from) ==
  LET I == {i \in from..Len(s) : s[i] = t}
  IN  IF I = {} THEN 0 ELSE CHOOSE i \in I : \A j \in I : i <= j

Count(s, t) == Cardinality({i \in 1..Len(s) : s[i] = t})

\* the indices at which pat occurs in s
Occurrences(s, pat) ==
  {i \in 1..(Len(s) - Len(pat) + 1) : SubSeq(s, i, i + Len(pat) - 1) = pat}

\* Adjacent text is one string: '<sty' followed by 'le>' is a '<style>' tag.
RECURSIVE Canon(_)
Canon(s) ==
  IF Len(s) < 2 THEN s
  ELSE IF s[1] = STY /\ s[2] = LE THEN <<STYLE_OPEN>> \o Canon(Drop(s, 2))
  ELSE <<Head(s)>> \o Canon(Tail(s))

\* str.replace(old, new): every non-overlapping occurrence, left to right
RECURSIVE Replace(_, _, _)
Replace(s, old, new) ==
  IF Len(s) < Len(old) THEN s
  ELSE IF IsPrefix(old, s) THEN new \o Replace(Drop(s, Len(old)), old, new)
  ELSE <<Head(s)>> \o Replace(Tail(s), old, new)

\* f.read() of a file opened with mode 'r': universal newlines
RECURSIVE ReadText(_)
ReadText(s) ==
  IF s = <<>> THEN <<>>
  ELSE IF Head(s) = CR
       THEN <<LF>> \o ReadText(IF Len(s) >= 2 /\ s[2] = LF THEN Drop(s, 2) ELSE Tail(s))
       ELSE <<Head(s)>> \o ReadText(Tail(s))

\* f.write() to a file opened with mode 'w': '\n' is written as os.linesep
WriteText(s) == Replace(s, <<LF>>, linesep)

\* ------------------------------------------------------------- patch rules
\* str.replace(old, new, 1): the first occurrence only
ReplaceFirst(s, old, new) ==
  LET I == {i \in 1..(Len(s) - Len(old) + 1) : SubSeq(s, i, i + Len(old) - 1) = old}
  IN  IF I = {} THEN s
      ELSE LET i == CHOOSE n \in I : \A m \in I : n <= m
           IN  SubSeq(s, 1, i - 1) \o new \o Drop(s, i + Len(old) - 1)

\* variant: the marker is '<footer>' at any indentation
PatchIndex_AnyIndent(s) == Replace(s, <<FOOTER>>, new_section)

\* variant: only the first marker is replaced
PatchIndex_FirstOnly(s) == ReplaceFirst(s, footer_marker, new_section)

\* line 19
PatchIndex(s) == Replace(s, footer_marker, new_section)

\* variant: re.sub(..., count=1)
SubStyle_FirstOnly(s) ==
  LET i == FirstIndex(s, STYLE_OPEN, 1)
      j == IF i = 0 THEN 0 ELSE FirstIndex(s, STYLE_CLOSE, i + 1)
  IN  IF j = 0 THEN s
      ELSE SubSeq(s, 1, i - 1) \o new_style \o Drop(s, j)

\* line 379: re.sub(r'<style>.*?</style>', new_style, s, flags=re.DOTALL)
RECURSIVE SubStyle(_)
SubStyle(s) ==
  LET i == FirstIndex(s, STYLE_OPEN, 1)
      j == IF i = 0 THEN 0 ELSE FirstIndex(s, STYLE_CLOSE, i + 1)
  IN  IF j = 0 THEN s
      ELSE SubSeq(s, 1, i - 1) \o new_style \o SubStyle(Drop(s, j))

\* the least index k >= i whose token is not whitespace (Len(s)+1 if none)
SkipWs(s, i) ==
  LET K == {k \in i..Len(s) : s[k] \notin Whitespace}
  IN  IF K = {} THEN Len(s) + 1 ELSE CHOOSE k \in K : \A m \in K : k <= m

\* the index of the last token of a match of bg_elements_pattern whose k-th
\* element is at index i, or 0 if there is no such match
RECURSIVE MatchBg(_, _, _)
MatchBg(s, i, k) ==
  IF i > Len(s) \/ s[i] # bg_elements_pattern[k] THEN 0
  ELSE IF k = Len(bg_elements_pattern) THEN i
  ELSE MatchBg(s, SkipWs(s, i + 1), k + 1)

RECURSIVE DeleteBg(_)
DeleteBg(s) ==
  IF s = <<>> THEN <<>>
  ELSE LET e == MatchBg(s, 1, 1)
       IN  IF e > 0 THEN DeleteBg(Drop(s, e))
           ELSE <<Head(s)>> \o DeleteBg(Tail(s))

\* line 383: re.sub(bg_elements_pattern, '', s, flags=re.DOTALL)
RemoveBg(s) == Canon(DeleteBg(s))

\* variant: each literal is replaced at its first occurrence only
ReplaceInline_FirstOnly(s) ==
  ReplaceFirst(ReplaceFirst(s, <<PURPLE>>, <<BLUE>>), <<P_TAG>>, <<P_TAG_COLOR>>)

\* lines 387-390
ReplaceInline(s) ==
  Replace(Replace(s, <<PURPLE>>, <<BLUE>>), <<P_TAG>>, <<P_TAG_COLOR>>)

\* the file-B rule sequence, lines 379-390
PatchFremtidsplaner(s) == ReplaceInline(RemoveBg(SubStyle(s)))

\* ------------------------------------------------------------------ inputs
RECURSIVE Flatten(_)
Flatten(ss) == IF ss = <<>> THEN <<>> ELSE Head(ss) \o Flatten(Tail(ss))

ChunkSeqs(F, n) == UNION {[1..k -> F] : k \in 0..n}

FragmentsA ==
  { footer_marker, <<FOOTER>>, <<SP>>, <<X>>, <<CR, LF>>, <<CR>>,
    <<HTML_OPEN>>, <<HTML_CLOSE>> }

BgBlock ==
  <<BG_COMMENT, LF, SP, BG_GRADIENT, BG_ORB_1, LF, BG_ORB_2, SP, BG_ORB_3>>

FragmentsB ==
  { <<STYLE_OPEN, X, STYLE_CLOSE>>, <<STYLE_OPEN>>, <<STYLE_CLOSE>>,
    <<X>>, <<CR, LF>>, <<CR>>, BgBlock,
    <<BG_COMMENT, BG_GRADIENT>>, <<BG_ORB_1, BG_ORB_2, BG_ORB_3>>,
    <<STY>> \o BgBlock \o <<LE>>,
    <<PURPLE>>, <<P_TAG>> }

FilesA == {Canon(Flatten(c)) : c \in ChunkSeqs(FragmentsA, MaxChunksA)}

FilesB == {Canon(Flatten(c)) : c \in ChunkSeqs(FragmentsB, MaxChunksB)}

PlainA == {<<X>>}

PlainB == {<<X, X>>}

\* ------------------------------------------------------------------- state
VARIABLES
  diskA,                   \* index.html on disk
  diskB,                   \* fremtidsplaner.html on disk
  pc,                      \* the statement the script executes next
  index_content,
  fremtidsplaner_content,
  stdout,                  \* lines printed by the current run
  exit,                    \* "running" or the exit status: "0", "1", "120"
  log,                     \* I/O events of the current run, in order
  run,                     \* number of the current run
  startA, startB,          \* the files when the current run started
  prevA, prevB             \* the files when the previous run started

vars == <<diskA, diskB, pc, index_content, fremtidsplaner_content, stdout,
          exit, log, run, startA, startB, prevA, prevB>>

Event(op, file, ok) == [op |-> op, file |-> file, ok |-> ok]

Init ==
  /\ \/ diskA \in FilesA /\ diskB \in PlainB
     \/ diskA \in PlainA /\ diskB \in FilesB
  /\ pc = "read_index"
  /\ index_content = <<>>
  /\ fremtidsplaner_content = <<>>
  /\ stdout = <<>>
  /\ exit = "running"
  /\ log = <<>>
  /\ run = 1
  /\ startA = diskA
  /\ startB = diskB
  /\ prevA = <<>>
  /\ prevB = <<>>

history == <<run, startA, startB, prevA, prevB>>

\* an uncaught exception: traceback, exit status 1
Raise(ev) ==
  /\ pc' = "failed"
  /\ exit' = "1"
  /\ log' = Append(log, ev)

\* lines 5-6
ReadIndex ==
  /\ pc = "read_index"
  /\ index_content' = ReadText(diskA)
  /\ log' = Append(log, Event("read", "A", TRUE))
  /\ pc' = "patch_index"
  /\ UNCHANGED <<diskA, diskB, fremtidsplaner_content, stdout, exit, history>>

ReadIndexFail ==
  /\ pc = "read_index"
  /\ Raise(Event("read", "A", FALSE))
  /\ UNCHANGED <<diskA, diskB, index_content, fremtidsplaner_content, stdout, history>>

\* variant: a missing marker is an error (str.index instead of str.replace)
ReplaceFooter_Strict ==
  /\ pc = "patch_index"
  /\ IF Occurrences(index_content, footer_marker) = {}
     THEN /\ pc' = "failed"
          /\ exit' = "1"
          /\ UNCHANGED index_content
     ELSE /\ pc' = "write_index"
          /\ index_content' = PatchIndex(index_content)
          /\ UNCHANGED exit
  /\ UNCHANGED <<diskA, diskB, fremtidsplaner_content, stdout, log, history>>

\* line 19
ReplaceFooter ==
  /\ pc = "patch_index"
  /\ index_content' = PatchIndex(index_content)
  /\ pc' = "write_index"
  /\ UNCHANGED <<diskA, diskB, fremtidsplaner_content, stdout, exit, log, history>>

\* variant: the written text of file A is not on disk when file B is opened
WriteIndex_Deferred ==
  /\ pc = "write_index"
  /\ log' = Append(log, Event("write", "A", TRUE))
  /\ pc' = "read_fremtidsplaner"
  /\ UNCHANGED <<diskA, diskB, index_content, fremtidsplaner_content, stdout, exit, history>>

\* lines 21-22
WriteIndex ==
  /\ pc = "write_index"
  /\ diskA' = WriteText(index_content)
  /\ log' = Append(log, Event("write", "A", TRUE))
  /\ pc' = "read_fremtidsplaner"
  /\ UNCHANGED <<diskB, index_content, fremtidsplaner_content, stdout, exit, history>>

\* What a file can hold when writing text w to it fails after open(..., 'w')
\* has truncated it: w up to any byte before its last, that is, some of its
\* tokens, or some of its tokens and a part of the next one.
CutOffs(w) ==
  {SubSeq(w, 1, k) : k \in 0..(Len(w) - 1)}
    \cup {Append(SubSeq(w, 1, k - 1), CutOf(w[k])) :
             k \in {i \in 1..Len(w) : w[i] \in MultiByte}}

\* open(..., 'w') fails: the file is untouched
WriteIndexOpenFail ==
  /\ pc = "write_index"
  /\ Raise(Event("write", "A", FALSE))
  /\ UNCHANGED <<diskA, diskB, index_content, fremtidsplaner_content, stdout, history>>

\* open(..., 'w') truncates the file, then the write fails part-way
WriteIndexFail ==
  /\ pc = "write_index"
  /\ diskA' \in CutOffs(WriteText(index_content))
  /\ Raise(Event("write", "A", FALSE))
  /\ UNCHANGED <<diskB, index_content, fremtidsplaner_content, stdout, history>>

\* lines 25-26
ReadFremtidsplaner ==
  /\ pc = "read_fremtidsplaner"
  /\ fremtidsplaner_content' = ReadText(diskB)
  /\ log' = Append(log, Event("read", "B", TRUE))
  /\ pc' = "sub_style"
  /\ UNCHANGED <<diskA, diskB, index_content, stdout, exit, history>>

\* variant: the failed read is swallowed and the script goes on
ReadFremtidsplanerFail_Swallowed ==
  /\ pc = "read_fremtidsplaner"
  /\ log' = Append(log, Event("read", "B", FALSE))
  /\ pc' = "sub_style"
  /\ UNCHANGED <<diskA, diskB, index_content, fremtidsplaner_content, stdout, exit, history>>

ReadFremtidsplanerFail ==
  /\ pc = "read_fremtidsplaner"
  /\ Raise(Event("read", "B", FALSE))
  /\ UNCHANGED <<diskA, diskB, index_content, fremtidsplaner_content, stdout, history>>

\* line 379
ReplaceStyle ==
  /\ pc = "sub_style"
  /\ fremtidsplaner_content' = SubStyle(fremtidsplaner_content)
  /\ pc' = "remove_bg"
  /\ UNCHANGED <<diskA, diskB, index_content, stdout, exit, log, history>>

\* line 383
RemoveBackground ==
  /\ pc = "remove_bg"
  /\ fremtidsplaner_content' = RemoveBg(fremtidsplaner_content)
  /\ pc' = "replace_inline"
  /\ UNCHANGED <<diskA, diskB, index_content, stdout, exit, log, history>>

\* lines 387-390
ReplaceInlineStyles ==
  /\ pc = "replace_inline"
  /\ fremtidsplaner_content' = ReplaceInline(fremtidsplaner_content)
  /\ pc' = "write_fremtidsplaner"
  /\ UNCHANGED <<diskA, diskB, index_content, stdout, exit, log, history>>

\* lines 392-393
WriteFremtidsplaner ==
  /\ pc = "write_fremtidsplaner"
  /\ diskB' = WriteText(fremtidsplaner_content)
  /\ log' = Append(log, Event("write", "B", TRUE))
  /\ pc' = "print"
  /\ UNCHANGED <<diskA, index_content, fremtidsplaner_content, stdout, exit, history>>

\* variant: the failed open is swallowed and the script goes on
WriteFremtidsplanerOpenFail_Swallowed ==
  /\ pc = "write_fremtidsplaner"
  /\ log' = Append(log, Event("write", "B", FALSE))
  /\ pc' = "print"
  /\ UNCHANGED <<diskA, diskB, index_content, fremtidsplaner_content, stdout, exit, history>>

WriteFremtidsplanerOpenFail ==
  /\ pc = "write_fremtidsplaner"
  /\ Raise(Event("write", "B", FALSE))
  /\ UNCHANGED <<diskA, diskB, index_content, fremtidsplaner_content, stdout, history>>

WriteFremtidsplanerFail ==
  /\ pc = "write_fremtidsplaner"
  /\ diskB' \in CutOffs(WriteText(fremtidsplaner_content))
  /\ Raise(Event("write", "B", FALSE))
  /\ UNCHANGED <<diskA, index_content, fremtidsplaner_content, stdout, history>>

\* line 395, then the script ends with exit status 0
PrintDone ==
  /\ pc = "print"
  /\ stdout' = Append(stdout, DONE_LINE)
  /\ exit' = "0"
  /\ pc' = "done"
  /\ UNCHANGED <<diskA, diskB, index_content, fremtidsplaner_content, log, history>>

\* line 395 when standard output stops taking bytes (a full device, a file
\* size limit): OSError, raised by print (unbuffered: status 1) or by the
\* flush at interpreter exit (buffered: status 120); standard output holds
\* nothing or a part of the line
PrintDoneFail ==
  /\ pc = "print"
  /\ pc' = "failed"
  /\ exit' \in {"1", "120"}
  /\ stdout' \in {stdout, Append(stdout, CUT_LINE)}
  /\ UNCHANGED <<diskA, diskB, index_content, fremtidsplaner_content, log, history>>

\* line 395 when the script was started with standard output closed:
\* sys.stdout is None, print does nothing and the script ends with status 0
PrintDoneNoStdout ==
  /\ pc = "print"
  /\ pc' = "done"
  /\ exit' = "0"
  /\ UNCHANGED <<diskA, diskB, index_content, fremtidsplaner_content, stdout, log, history>>

\* the script is started again on the files a completed run left behind
Rerun ==
  /\ pc = "done"
  /\ run < MaxRuns
  /\ run' = run + 1
  /\ prevA' = startA
  /\ prevB' = startB
  /\ startA' = diskA
  /\ startB' = diskB
  /\ pc' = "read_index"
  /\ index_content' = <<>>
  /\ fremtidsplaner_content' = <<>>
  /\ stdout' = <<>>
  /\ exit' = "running"
  /\ log' = <<>>
  /\ UNCHANGED <<diskA, diskB>>

Next ==
  \/ ReadIndex
  \/ ReadIndexFail
  \/ ReplaceFooter
  \/ WriteIndex
  \/ WriteIndexOpenFail
  \/ WriteIndexFail
  \/ ReadFremtidsplaner
  \/ ReadFremtidsplanerFail
  \/ ReplaceStyle
  \/ RemoveBackground
  \/ ReplaceInlineStyles
  \/ WriteFremtidsplaner
  \/ WriteFremtidsplanerOpenFail
  \/ WriteFremtidsplanerFail
  \/ PrintDone
  \/ PrintDoneFail
  \/ PrintDoneNoStdout
  \/ Rerun

Spec == Init /\ [][Next]_vars

TypeOK ==
  /\ pc \in {"read_index", "patch_index", "write_index", "read_fremtidsplaner",
             "sub_style", "remove_bg", "replace_inline", "write_fremtidsplaner",
             "print", "done", "failed"}
  /\ exit \in {"running", "0", "1", "120"}
  /\ run \in 1..MaxRuns

\* ---------------------------------------------------- vocabulary of the claims
Ok(k) == Len(log) >= k /\ log[k].ok

\* the current run has written file A / file B
WrittenA == Ok(2)

WrittenB == Ok(4)

\* new_section without the marker it ends with
BlockBeforeFooter == SubSeq(new_section, 1, Len(new_section) - 1)

BlockBeforeMarker == SubSeq(new_section, 1, Len(new_section) - Len(footer_marker))

MinimalA == <<HTML_OPEN, FOOTER, HTML_CLOSE>>

\* ------------------------------------------------------------------ claim C1
\* C1 as stated: whenever file A holds '<footer>' exactly once, at whatever
\* indentation, the file a run writes is the input with the new block put
\* immediately before '<footer>', and '<footer>' still occurs exactly once.
C1_AsStated ==
  (WrittenA /\ Count(startA, FOOTER) = 1) =>
    LET i == FirstIndex(startA, FOOTER, 1)
    IN  /\ diskA = SubSeq(startA, 1, i - 1) \o BlockBeforeFooter \o Drop(startA, i - 1)
        /\ Count(diskA, FOOTER) = 1

\* C1 amended: whenever file A holds the marker, four spaces followed by
\* '<footer>', exactly once, the file a run writes is the input, its CRLF and
\* CR line ends read as LF, with the new block put immediately before the
\* four spaces, and the marker still occurs exactly once; the minimal file,
\* whose '<footer>' has no four spaces before it, is written back as it was.
C1_InsertBeforeIndentedFooter ==
  /\ (WrittenA /\ Cardinality(Occurrences(startA, footer_marker)) = 1) =>
       LET i == CHOOSE n \in Occurrences(startA, footer_marker) : TRUE
       IN  /\ diskA = ReadText(SubSeq(startA, 1, i - 1)) \o BlockBeforeMarker
                        \o footer_marker \o ReadText(Drop(startA, i + Len(footer_marker) - 1))
           /\ Cardinality(Occurrences(diskA, footer_marker)) = 1
           /\ Count(diskA, CARD) = Count(startA, CARD) + 1
  /\ (WrittenA /\ startA = MinimalA) => diskA = MinimalA

C1_Witness ==
  /\ run = 1
  /\ WrittenA
  /\ Cardinality(Occurrences(startA, footer_marker)) = 1
  /\ Count(startA, CR) > 0
  /\ Count(diskA, CARD) = 1

\* ------------------------------------------------------------------ claim C2
\* C2 as stated: when the content of file A holds the marker more than once,
\* the replacement (line 19) puts the new block before the first occurrence
\* only and leaves every later occurrence as it was.
C2_AsStated ==
  (pc = "write_index" /\ Cardinality(Occurrences(ReadText(startA), footer_marker)) > 1) =>
    LET in == ReadText(startA)
        i  == CHOOSE n \in Occurrences(in, footer_marker) :
                \A m \in Occurrences(in, footer_marker) : n <= m
    IN  index_content = SubSeq(in, 1, i - 1) \o new_section \o Drop(in, i + Len(footer_marker) - 1)

\* C2 amended: every occurrence of the marker is replaced by the new block
\* followed by the marker: a run inserts one new block per occurrence, keeps
\* the number of markers, and taking the inserted blocks out again gives the
\* content that was read.
C2_EveryOccurrenceReplaced ==
  (pc = "write_index") =>
    LET in == ReadText(startA)
        n  == Cardinality(Occurrences(in, footer_marker))
    IN  /\ Count(index_content, CARD) = Count(in, CARD) + n
        /\ Cardinality(Occurrences(index_content, footer_marker)) = n
        /\ Len(index_content) = Len(in) + n * Len(BlockBeforeMarker)
        /\ \A i \in Occurrences(index_content, footer_marker) :
             i > Len(BlockBeforeMarker)
             /\ SubSeq(index_content, i - Len(BlockBeforeMarker), i - 1) = BlockBeforeMarker

C2_Witness ==
  /\ run = 1
  /\ pc = "write_index"
  /\ Cardinality(Occurrences(ReadText(startA), footer_marker)) > 1
  /\ Count(index_content, CARD) > 1

\* ------------------------------------------------------------------ claim C6
\* C6 as stated: for any file A that holds '<footer>', the file written by a
\* run still holds it, and a second run inserts the new block again: two
\* runs give a file other than one run, with the block in it twice.
C6_AsStated ==
  (run >= 2 /\ WrittenA /\ Count(prevA, FOOTER) > 0) =>
    /\ Count(startA, FOOTER) > 0
    /\ diskA # startA
    /\ Count(diskA, CARD) >= Count(prevA, CARD) + 2

\* C6 amended: for any file A that holds the marker, four spaces followed by
\* '<footer>', the file written by a run holds as many markers, and a second
\* run inserts the new block again before each: two runs give a file other
\* than one run, with two new blocks per marker.
C6_SecondRunInsertsAgain ==
  (run >= 2 /\ WrittenA /\ Occurrences(prevA, footer_marker) # {}) =>
    LET n == Cardinality(Occurrences(prevA, footer_marker))
    IN  /\ Cardinality(Occurrences(startA, footer_marker)) = n
        /\ diskA # startA
        /\ Count(startA, CARD) = Count(prevA, CARD) + n
        /\ Count(diskA, CARD) = Count(prevA, CARD) + 2 * n

C6_Witness ==
  /\ run = 2
  /\ pc = "done"
  /\ Cardinality(Occurrences(prevA, footer_marker)) = 1
  /\ Count(diskA, CARD) = 2

\* ------------------------------------------------------------------ claim C3
\* the '<style>...</style>' pairs of s, left to right, each from a '<style>'
\* to the first '</style>' after it
RECURSIVE StylePairs(_)
StylePairs(s) ==
  IF \E i, j \in 1..Len(s) : i < j /\ s[i] = STYLE_OPEN /\ s[j] = STYLE_CLOSE
  THEN LET i == CHOOSE a \in 1..Len(s) :
                  s[a] = STYLE_OPEN /\ \A b \in 1..(a - 1) : s[b] # STYLE_OPEN
           j == CHOOSE a \in (i + 1)..Len(s) :
                  s[a] = STYLE_CLOSE /\ \A b \in (i + 1)..(a - 1) : s[b] # STYLE_CLOSE
       IN  <<SubSeq(s, i, j)>> \o StylePairs(SubSeq(s, j + 1, Len(s)))
  ELSE <<>>

\* the text of s outside its pairs: before the first pair, between
\* consecutive pairs, after the last pair
RECURSIVE StyleGaps(_)
StyleGaps(s) ==
  IF \E i, j \in 1..Len(s) : i < j /\ s[i] = STYLE_OPEN /\ s[j] = STYLE_CLOSE
  THEN LET i == CHOOSE a \in 1..Len(s) :
                  s[a] = STYLE_OPEN /\ \A b \in 1..(a - 1) : s[b] # STYLE_OPEN
           j == CHOOSE a \in (i + 1)..Len(s) :
                  s[a] = STYLE_CLOSE /\ \A b \in (i + 1)..(a - 1) : s[b] # STYLE_CLOSE
       IN  <<SubSeq(s, 1, i - 1)>> \o StyleGaps(SubSeq(s, j + 1, Len(s)))
  ELSE <<s>>

\* the replacement stylesheet from its '<style>' tag to its '</style>' tag
Stylesheet == <<STYLE_OPEN, CSS, STYLE_CLOSE>>

\* C3 as stated: when the content of file B has '<style>...</style>' pairs,
\* after the style substitution the first pair is the replacement
\* stylesheet and every other pair is what it was in the input.
C3_AsStated ==
  (pc = "remove_bg" /\ StylePairs(ReadText(startB)) # <<>>) =>
    /\ Head(StylePairs(fremtidsplaner_content)) = Stylesheet
    /\ Tail(StylePairs(fremtidsplaner_content)) = Tail(StylePairs(ReadText(startB)))

\* C3 amended: after the style substitution every pair, not only the first,
\* is the replacement stylesheet; there are as many pairs as in the input,
\* and the text outside the pairs is what it was in the input, except for
\* the two spaces the replacement text puts before each '<style>' tag.
C3_EveryPairReplaced ==
  (pc = "remove_bg") =>
    LET in   == ReadText(startB)
        out  == fremtidsplaner_content
        n    == Len(StylePairs(in))
    IN  /\ Len(StylePairs(out)) = n
        /\ \A k \in 1..n : StylePairs(out)[k] = Stylesheet
        /\ Len(StyleGaps(out)) = n + 1
        /\ \A k \in 1..n : StyleGaps(out)[k] = StyleGaps(in)[k] \o <<SP, SP>>
        /\ StyleGaps(out)[n + 1] = StyleGaps(in)[n + 1]

C3_Witness ==
  /\ run = 1
  /\ pc = "remove_bg"
  /\ Len(StylePairs(ReadText(startB))) = 2
  /\ StylePairs(ReadText(startB))[2] # Stylesheet
  /\ StylePairs(fremtidsplaner_content)[2] = Stylesheet

\* ------------------------------------------------------------------ claim C4
\* the content of file B on which lines 387-390 act in the current run
BeforeInline == RemoveBg(SubStyle(ReadText(startB)))

\* C4: every occurrence of the purple inline-style literal becomes the blue
\* literal and every '<p style="margin-bottom:0;">' becomes the tag with the
\* colour property, nothing else changes in that step, and the file B a run
\* writes holds neither original literal.
C4_EveryInlineOccurrenceReplaced ==
  /\ (pc = "write_fremtidsplaner") =>
       /\ Len(fremtidsplaner_content) = Len(BeforeInline)
       /\ \A i \in 1..Len(BeforeInline) :
            fremtidsplaner_content[i] =
              CASE BeforeInline[i] = PURPLE -> BLUE
                [] BeforeInline[i] = P_TAG -> P_TAG_COLOR
                [] OTHER -> BeforeInline[i]
  /\ WrittenB => Count(diskB, PURPLE) = 0 /\ Count(diskB, P_TAG) = 0

C4_Witness ==
  /\ run = 1
  /\ pc = "done"
  /\ Count(startB, PURPLE) = 2
  /\ Count(startB, P_TAG) = 1
  /\ Count(diskB, BLUE) = 2
  /\ Count(diskB, P_TAG_COLOR) = 1

\* ------------------------------------------------------------------ claim C5
NotWhitespace(t) == t \notin Whitespace

HasStylePair(s) ==
  \E i, j \in 1..Len(s) : i < j /\ s[i] = STYLE_OPEN /\ s[j] = STYLE_CLOSE

\* s holds the decorative background block: its five elements in order with
\* nothing but whitespace between them
HasBgBlock(s) ==
  \E i, j \in 1..Len(s) :
    /\ i < j
    /\ s[i] = BG_COMMENT
    /\ s[j] = BG_ORB_3
    /\ SelectSeq(SubSeq(s, i, j), NotWhitespace) = bg_elements_pattern

\* no rule of the file-B sequence has a match in s
NoMatchB(s) ==
  /\ ~HasStylePair(s)
  /\ ~HasBgBlock(s)
  /\ Count(s, PURPLE) = 0
  /\ Count(s, P_TAG) = 0

\* s as text-mode reading and writing leave it: every CR followed by LF,
\* and every other CR, is one LF; nothing else is touched
LineEndsAsLF(s) ==
  LET K      == {i \in 1..Len(s) : ~(s[i] = LF /\ i > 1 /\ s[i - 1] = CR)}
      idx(n) == CHOOSE i \in K : Cardinality({j \in K : j < i}) = n - 1
  IN  [n \in 1..Cardinality(K) |-> IF s[idx(n)] = CR THEN LF ELSE s[idx(n)]]

\* every read and write of both files has succeeded in the current run
AllFileIoOk == Len(log) = 4 /\ \A k \in 1..4 : log[k].ok

\* C5 as stated: a file A without '<footer>' is written back unchanged, a
\* file B without a match of any rule is written back unchanged, and the
\* run is not failed by the missing match: it completes and prints the
\* completion line.
C5_AsStated ==
  /\ (WrittenA /\ Count(startA, FOOTER) = 0) => diskA = startA
  /\ (WrittenB /\ NoMatchB(startB)) => diskB = startB
  /\ (pc = "failed") => ~log[Len(log)].ok
  /\ (pc = "done") => stdout = <<DONE_LINE>>

\* C5 amended: a file A without the marker (no '<footer>' with four spaces
\* before it) and a file B without a match of any rule are written back
\* token for token as they were, except that each CRLF and each CR is
\* written as one LF.  A missing match never fails the run: a run fails
\* only in a read or write of a file or, after both files are written, in
\* printing the completion line; a run that ends with status 0 has printed
\* the completion line once, or nothing if standard output is closed.
C5_NoMatchIsNoOp ==
  /\ (WrittenA /\ Occurrences(startA, footer_marker) = {}) =>
       /\ diskA = LineEndsAsLF(startA)
       /\ Count(startA, CR) = 0 => diskA = startA
  /\ (WrittenB /\ NoMatchB(startB)) =>
       /\ diskB = LineEndsAsLF(startB)
       /\ Count(startB, CR) = 0 => diskB = startB
  /\ (pc = "failed") => (~log[Len(log)].ok \/ AllFileIoOk)
  /\ AllFileIoOk => pc \in {"print", "done", "failed"}
  /\ (pc = "done") =>
       /\ AllFileIoOk
       /\ exit = "0"
       /\ stdout \in {<<DONE_LINE>>, <<>>}

C5_Witness ==
  /\ run = 1
  /\ pc = "done"
  /\ stdout = <<DONE_LINE>>
  /\ Occurrences(startA, footer_marker) = {}
  /\ diskA = startA
  /\ NoMatchB(startB)
  /\ Count(startB, STYLE_OPEN) > 0
  /\ Count(startB, BG_COMMENT) > 0
  /\ Count(startB, CR) > 0
  /\ diskB # startB

\* ----------------------------------------------------------------- claim C10
\* s with two spaces put before every copy of the replacement stylesheet
RECURSIVE IndentStylesheets(_)
IndentStylesheets(s) ==
  IF s = <<>> THEN <<>>
  ELSE IF IsPrefix(Stylesheet, s)
       THEN <<SP, SP>> \o Stylesheet \o IndentStylesheets(Drop(s, Len(Stylesheet)))
       ELSE <<Head(s)>> \o IndentStylesheets(Tail(s))

\* C10 as stated: when the content of file B has a style pair, a further run
\* on the output of a run is not a fixed point: it puts two more spaces
\* before the '<style>' tag of the replacement stylesheet and leaves
\* everything else in file B as it was after the first run.
C10_AsStated ==
  (run >= 2 /\ WrittenB /\ HasStylePair(ReadText(prevB))) =>
    /\ diskB # startB
    /\ diskB = IndentStylesheets(startB)

\* C10 amended: the same, provided the output of the first run has no style
\* pair other than copies of the replacement stylesheet and no decorative
\* background block (either can be there only where the first run removed a
\* decorative block and so joined the text on both sides of it).
C10_FurtherRunIndentsStylesheet ==
  (/\ run >= 2
   /\ WrittenB
   /\ HasStylePair(ReadText(prevB))
   /\ \A k \in 1..Len(StylePairs(startB)) : StylePairs(startB)[k] = Stylesheet
   /\ ~HasBgBlock(startB)) =>
    /\ diskB # startB
    /\ diskB = IndentStylesheets(startB)
    /\ Len(diskB) = Len(startB) + 2 * Len(StylePairs(startB))

C10_Witness ==
  /\ run = 2
  /\ pc = "done"
  /\ Len(StylePairs(ReadText(prevB))) = 2
  /\ ~HasBgBlock(startB)
  /\ \A k \in 1..Len(StylePairs(startB)) : StylePairs(startB)[k] = Stylesheet
  /\ Len(diskB) = Len(startB) + 4

\* ------------------------------------------------------------------ claim C7
\* what a complete run makes of the files it started on
PatchedA == WriteText(PatchIndex(ReadText(startA)))

PatchedB == WriteText(PatchFremtidsplaner(ReadText(startB)))

\* the current run failed in reading or writing file B
FailedAtB == pc = "failed" /\ log[Len(log)].file = "B" /\ ~log[Len(log)].ok

\* C7 as stated: in every run in which reading or writing file B fails,
\* file A on disk holds its patched content and file B does not hold its
\* patched content.
C7_AsStated ==
  FailedAtB => diskA = PatchedA /\ diskB # PatchedB

\* C7 amended: in every run in which reading or writing file B fails, file A
\* on disk holds its patched content, written before file B was first
\* opened, while file B holds what it held before the run or a cut-off part
\* of its patched content; so file B holds its patched content only if the
\* rules and the newline translation leave the content of file B as it was.
C7_NoRollback ==
  FailedAtB =>
    /\ diskA = PatchedA
    /\ Ok(2)
    /\ \/ diskB = startB
       \/ /\ Len(diskB) < Len(PatchedB)
          /\ diskB = SubSeq(PatchedB, 1, Len(diskB))
       \/ /\ Len(diskB) \in 1..Len(PatchedB)
          /\ SubSeq(diskB, 1, Len(diskB) - 1) = SubSeq(PatchedB, 1, Len(diskB) - 1)
          /\ PatchedB[Len(diskB)] \in MultiByte
          /\ diskB[Len(diskB)] = CutOf(PatchedB[Len(diskB)])
    /\ diskB = PatchedB => PatchedB = startB

C7_Witness ==
  /\ run = 1
  /\ FailedAtB
  /\ log[Len(log)].op = "write"
  /\ diskA # startA
  /\ diskA = PatchedA
  /\ diskB # startB
  /\ diskB # <<>>

\* ------------------------------------------------------------------ claim C8
\* C8: the completion line, or any part of it, is printed at most once in a
\* run and only after both files have been written, and a run in which a
\* read or write of a file fails ends with a non-zero status and has printed
\* nothing.
C8_PrintOnlyAfterBothWrites ==
  /\ Len(stdout) <= 1
  /\ stdout # <<>> =>
       /\ stdout \in {<<DONE_LINE>>, <<CUT_LINE>>}
       /\ WrittenA
       /\ WrittenB
       /\ diskA = PatchedA
       /\ diskB = PatchedB
       /\ stdout = <<DONE_LINE>> <=> exit = "0"
  /\ (\E k \in 1..Len(log) : ~log[k].ok) =>
       /\ pc = "failed"
       /\ exit = "1"
       /\ stdout = <<>>
  /\ exit = "0" <=> pc = "done"
  /\ exit \in {"1", "120"} <=> pc = "failed"

C8_Witness ==
  /\ pc = "failed"
  /\ exit = "1"
  /\ stdout = <<>>
  /\ Len(log) = 4
  /\ log[4] = Event("write", "B", FALSE)
  /\ diskB # startB

\* ------------------------------------------------------------------ claim C9
IoOrder ==
  <<[op |-> "read", file |-> "A"], [op |-> "write", file |-> "A"],
    [op |-> "read", file |-> "B"], [op |-> "write", file |-> "B"]>>

\* C9: the reads and writes of a run are, in this order, read A, write A,
\* read B, write B, each attempted only after all before it succeeded, so a
\* file is opened for writing only after it was read; if file A cannot be
\* read neither file is modified, and if file B cannot be read file B is not
\* modified.
C9_ReadBeforeWrite ==
  /\ Len(log) <= Len(IoOrder)
  /\ \A k \in 1..Len(log) :
       /\ log[k].op = IoOrder[k].op
       /\ log[k].file = IoOrder[k].file
       /\ k < Len(log) => log[k].ok
  /\ diskA # startA => Len(log) >= 2 /\ log[1] = Event("read", "A", TRUE)
  /\ diskB # startB => Len(log) >= 4 /\ log[3] = Event("read", "B", TRUE)
  /\ (Len(log) >= 1 /\ ~log[1].ok) => diskA = startA /\ diskB = startB
  /\ (Len(log) >= 3 /\ ~log[3].ok) => diskB = startB

C9_Witness ==
  /\ pc = "failed"
  /\ log = <<Event("read", "A", TRUE), Event("write", "A", TRUE), Event("read", "B", FALSE)>>
  /\ diskA # startA
  /\ diskA = PatchedA
  /\ diskB = startB

====
